---------------------------- MODULE Spec2Model ----------------------------
(***************************************************************************)
(* One invocation of the filing processor: lambda_handler loads the        *)
(* configuration, the Processor downloads the filing, IxbrlViewerWorker    *)
(* discovers the enclosing package, runs the engine, classifies the        *)
(* outcome, the Processor uploads on success, and lambda_handler projects  *)
(* the WorkerResult into the response.  MockWorker.work is modelled as a   *)
(* call of its own.                                                        *)
(*                                                                         *)
(* Optional values (Python's `X | None`) are sequences of length at most   *)
(* one: None is <<>> and a present value v is <<v>>.                       *)
(* A path is the sequence of its components below the root: /a/b is        *)
(* <<"a", "b">> and the root / is <<>>.                                    *)
(* A string that the code builds character by character (the formatted     *)
(* date) is a sequence of one-character strings.                           *)
(***************************************************************************)
EXTENDS Integers, Sequences, FiniteSets, TLC

VARIABLES
    pc,            \* position of the invocation
    jobId,         \* job_message.filing_id
    target,        \* target_path handed to IxbrlViewerWorker.work
    fs,            \* the local filesystem: path -> kind
    engine,        \* what the engine does in this run: ok, artifact, stat, models, logs
    packages,      \* the list built by package discovery in work
    runtimeOptions,\* the RuntimeOptions handed to Session.run (optional)
    viewerResult,  \* IxbrlViewerResult returned by _generate_viewer (optional)
    workerResult,  \* WorkerResult returned by work (optional)
    result,        \* WorkerResult returned by Processor.run_from_lambda (optional)
    response,      \* dict returned by lambda_handler (optional)
    fault,         \* the stage that raised a low-level exception (optional)
    stages,        \* the stages executed so far, in order
    mockMap,       \* MockWorker._worker_results_map
    mockMap0,      \* the mapping MockWorker was constructed with
    mockCall,      \* the filing id MockWorker.work was called with (optional)
    mockOut        \* what MockWorker.work did: not called, returned, raised

vars == <<pc, jobId, target, fs, engine, packages, runtimeOptions, viewerResult,
          workerResult, result, response, fault, stages,
          mockMap, mockMap0, mockCall, mockOut>>

-----------------------------------------------------------------------------
(* Bounds of the model. *)

\* most facts reported under one local name in one model
MaxFacts == 2
\* most models the engine session exposes
MaxModels == 2

-----------------------------------------------------------------------------
(* Optional values. *)

None == <<>>
Some(v) == <<v>>
IsNone(o) == o = <<>>
IsSome(o) == o # <<>>
Value(o) == o[1]

\* all sequences over S of length at most n
SeqsUpTo(S, n) == UNION {[1..k -> S] : k \in 0..n}

-----------------------------------------------------------------------------
(* Program constants and messages. *)

VIEWER_HTML_FILENAME == "ixbrlviewer.html"
EngineFailedError == "Viewer generation failed within Arelle. Check the logs for details."
ViewerMissingError == "Arelle reported success but viewer was not found. Check the logs for details."

EntityName == "EntityCurrentLegalOrRegisteredName"
RegisteredNumber == "UKCompaniesHouseRegisteredNumber"
BalanceSheetDate == "BalanceSheetDate"
LocalNames == {EntityName, RegisteredNumber, BalanceSheetDate}


-----------------------------------------------------------------------------
(* Paths and the filesystem (pathlib.Path.parents, zipfile.is_zipfile). *)

Root == <<>>
DocInDirectory == <<"a", "b", "c", "doc.xml">>
DocInArchive == <<"a", "b.zip", "c", "doc.xml">>
Targets == {DocInDirectory, DocInArchive}

\* the paths below the root whose kind the filesystem records
FsPaths == {<<"a">>, <<"a", "b">>, <<"a", "b.zip">>,
            <<"a", "b", "c">>, <<"a", "b.zip", "c">>}
\* a directory; a valid archive file ("zip"); a malformed archive whose
\* end-of-central-directory record is intact (a corrupt central directory, or
\* junk followed by an end record: "brokenzip"); a file whose intact end record
\* is preceded by a zip64 locator that names another disk or more than one
\* disk ("multidisk"); a file with no end record ("file"); nothing
Kinds == {"dir", "zip", "brokenzip", "multidisk", "file", "absent"}

Parent(p) == SubSeq(p, 1, Len(p) - 1)

Kind(f, p) == IF p = Root THEN "dir" ELSE IF p \in DOMAIN f THEN f[p] ELSE "absent"

\* only a directory has entries
Filesystems == {f \in [FsPaths -> Kinds] :
                    \A p \in FsPaths : f[p] # "absent" => Kind(f, Parent(p)) = "dir"}

\* Path.parents: the ancestors from the immediate parent out to the root
Parents(p) == [i \in 1..Len(p) |-> SubSeq(p, 1, Len(p) - i)]

\* zipfile.is_zipfile: "True" for a file that ends in an end-of-central-directory
\* record, whether or not the archive opens; "False" for a directory, a missing
\* path or a file without that record (OSError is swallowed); for a multi-disk
\* zip64 locator it raises BadZipFile, which it does not swallow
is_zipfile(f, p) ==
    IF Kind(f, p) \in {"zip", "brokenzip"} THEN "True"
    ELSE IF Kind(f, p) = "multidisk" THEN "BadZipFile"
    ELSE "False"

\* the loop over the parents: the list it leaves, or the exception that ends it
RECURSIVE walk_parents(_, _, _)
walk_parents(f, ps, i) ==
    IF i > Len(ps) THEN [raised |-> FALSE, packages |-> <<>>]
    ELSE IF is_zipfile(f, ps[i]) = "BadZipFile" THEN [raised |-> TRUE, packages |-> <<>>]
    ELSE IF is_zipfile(f, ps[i]) = "True" THEN [raised |-> FALSE, packages |-> <<ps[i]>>]
    ELSE walk_parents(f, ps, i + 1)

\* a slip: only the immediate parent is tested
find_packages_parent_only(f, t) ==
    IF is_zipfile(f, Parents(t)[1]) = "BadZipFile" THEN [raised |-> TRUE, packages |-> <<>>]
    ELSE IF is_zipfile(f, Parents(t)[1]) = "True"
    THEN [raised |-> FALSE, packages |-> <<Parents(t)[1]>>]
    ELSE [raised |-> FALSE, packages |-> <<>>]

\* the loop that opens IxbrlViewerWorker.work
find_packages(f, t) == walk_parents(f, Parents(t), 1)

-----------------------------------------------------------------------------
(* Facts, models and _get_value_by_local_name. *)

CompanyNames == {"Acme Ltd", "Beta plc"}
CompanyNumbers == {"01234567", "SC123456"}
DocumentDates == {[year |-> 2023, month |-> 12, day |-> 31],
                  [year |-> 999, month |-> 1, day |-> 2]}

XValues(n) == IF n = EntityName THEN CompanyNames
              ELSE IF n = RegisteredNumber THEN CompanyNumbers
              ELSE DocumentDates

\* the facts of one local name, in the order iteration meets them
FactSeqs(n) == SeqsUpTo([xValue : XValues(n)], MaxFacts)

\* factsByLocalName: only the local names that have facts are keys
FactsByLocalName(r) == [n \in {k \in LocalNames : r[k] # <<>>} |-> r[n]]

ModelXbrls ==
    {[factsByLocalName |-> FactsByLocalName(
          (EntityName :> a) @@ (RegisteredNumber :> b) @@ (BalanceSheetDate :> c))] :
        a \in FactSeqs(EntityName), b \in FactSeqs(RegisteredNumber),
        c \in FactSeqs(BalanceSheetDate)}

\* a further model of the session, which the worker never reads
OtherModel == [factsByLocalName |->
                  (EntityName :> <<[xValue |-> "Other Ltd"]>>)
               @@ (RegisteredNumber :> <<[xValue |-> "99999999"]>>)
               @@ (BalanceSheetDate :> <<[xValue |-> [year |-> 2001, month |-> 2, day |-> 3]]>>)]

\* session.get_models(): no model, or a first model followed by further ones
ModelLists == {<<>>} \cup
    {<<m>> \o [i \in 1..k |-> OtherModel] : m \in ModelXbrls, k \in 0..(MaxModels - 1)}

\* dict.get(key, default)
Get(d, k, default) == IF k \in DOMAIN d THEN d[k] ELSE default

\* a slip: the last fact instead of the first
get_value_last(model_xbrl, local_name) ==
    LET facts == Get(model_xbrl.factsByLocalName, local_name, <<>>)
    IN  IF facts # <<>> THEN Some(facts[Len(facts)].xValue) ELSE None

_get_value_by_local_name(model_xbrl, local_name) ==
    LET facts == Get(model_xbrl.factsByLocalName, local_name, <<>>)
    IN  IF facts # <<>> THEN Some(Head(facts).xValue) ELSE None


-----------------------------------------------------------------------------
(* The engine session and _generate_viewer. *)

LogTexts == {"", "[err] message - doc.xml"}

\* what stat() of the viewer path does after the run: it answers ("ok"), or
\* it fails with an error Path.exists does not swallow, such as EACCES below an
\* unsearchable directory or ENAMETOOLONG ("OSError")
StatOutcomes == {"ok", "OSError"}

\* what Session.run does in one run and leaves behind: its return value,
\* whether ixbrlviewer.html is in the output directory, what stat() of that
\* path does, the models it keeps open and the text of its log buffer
EngineRuns == [ok : BOOLEAN, artifact : BOOLEAN, stat : StatOutcomes,
               models : ModelLists, logs : LogTexts]

\* viewer_path.exists(): "True", "False", or the OSError it lets through
path_exists(e) ==
    IF e.stat = "OSError" THEN "OSError"
    ELSE IF e.artifact THEN "True"
    ELSE "False"

\* the IxbrlViewerResult that _generate_viewer builds from the session
_generate_viewer(e) ==
    LET model_xbrls == e.models
        has == model_xbrls # <<>>
        model_xbrl == model_xbrls[1]
    IN  [success |-> e.ok,
         logs |-> e.logs,
         company_name |-> IF has THEN _get_value_by_local_name(model_xbrl, EntityName) ELSE None,
         company_number |-> IF has THEN _get_value_by_local_name(model_xbrl, RegisteredNumber) ELSE None,
         document_date |-> IF has THEN _get_value_by_local_name(model_xbrl, BalanceSheetDate) ELSE None]

-----------------------------------------------------------------------------
(* WorkerResult and the classification that closes IxbrlViewerWorker.work. *)

\* WorkerResult(): every field at its default
WorkerResult == [success |-> FALSE, error |-> None, logs |-> "",
                 company_name |-> None, company_number |-> None,
                 document_date |-> None, filing_id |-> None,
                 viewer_entrypoint |-> None]

SuccessResult(r) ==
    [WorkerResult EXCEPT !.success = TRUE,
                         !.viewer_entrypoint = Some(VIEWER_HTML_FILENAME),
                         !.logs = r.logs,
                         !.company_name = r.company_name,
                         !.company_number = r.company_number,
                         !.document_date = r.document_date]

\* how work ends: it returns a WorkerResult, or an exception leaves it
Returned(w) == [raised |-> FALSE, value |-> Some(w)]
Raised == [raised |-> TRUE, value |-> None]

\* a slip: the artifact is looked for before the engine's status
work_result_artifact_first(r, viewer_exists) ==
    IF viewer_exists = "OSError" THEN Raised
    ELSE IF viewer_exists = "False"
    THEN Returned([WorkerResult EXCEPT !.error = Some(ViewerMissingError), !.logs = r.logs])
    ELSE IF ~r.success
    THEN Returned([WorkerResult EXCEPT !.error = Some(EngineFailedError), !.logs = r.logs])
    ELSE Returned(SuccessResult(r))

\* a slip: the failure results keep the entrypoint
work_result_entrypoint_kept(r, viewer_exists) ==
    IF ~r.success
    THEN Returned([WorkerResult EXCEPT !.error = Some(EngineFailedError), !.logs = r.logs,
                                       !.viewer_entrypoint = Some(VIEWER_HTML_FILENAME)])
    ELSE IF viewer_exists = "OSError" THEN Raised
    ELSE IF viewer_exists = "False"
    THEN Returned([WorkerResult EXCEPT !.error = Some(ViewerMissingError), !.logs = r.logs,
                                       !.viewer_entrypoint = Some(VIEWER_HTML_FILENAME)])
    ELSE Returned(SuccessResult(r))

\* a slip: the engine's status is never looked at
work_result_status_ignored(r, viewer_exists) ==
    IF viewer_exists = "OSError" THEN Raised
    ELSE IF viewer_exists = "False"
    THEN Returned([WorkerResult EXCEPT !.error = Some(ViewerMissingError), !.logs = r.logs])
    ELSE Returned(SuccessResult(r))

\* work, from the return of _generate_viewer on: viewer_path.exists() is
\* called only when the engine reported success, and what it raises leaves work
work_result(r, viewer_exists) ==
    IF ~r.success
    THEN Returned([WorkerResult EXCEPT !.error = Some(EngineFailedError), !.logs = r.logs])
    ELSE IF viewer_exists = "OSError" THEN Raised
    ELSE IF viewer_exists = "False"
    THEN Returned([WorkerResult EXCEPT !.error = Some(ViewerMissingError), !.logs = r.logs])
    ELSE Returned(SuccessResult(r))

-----------------------------------------------------------------------------
(* The response projection of lambda_handler. *)

Digits == <<"0", "1", "2", "3", "4", "5", "6", "7", "8", "9">>
Digit(n) == Digits[n + 1]

\* the decimal digits of n, without padding
RECURSIVE Decimal(_)
Decimal(n) == IF n < 10 THEN <<Digit(n)>> ELSE Decimal(n \div 10) \o <<Digit(n % 10)>>

\* two digits, zero padded (%m and %d)
Pad2(n) == <<Digit(n \div 10), Digit(n % 10)>>

\* strftime('%Y-%m-%d') as the C library of the Linux runtime formats it:
\* %Y is the year as a decimal number, which it does not pad
strftime(d) == Decimal(d.year) \o <<"-">> \o Pad2(d.month) \o <<"-">> \o Pad2(d.day)

\* the dict that lambda_handler returns for a WorkerResult
lambda_response(worker_result) ==
    LET base == [CompanyName |-> worker_result.company_name,
                 CompanyNumber |-> worker_result.company_number,
                 Error |-> worker_result.error,
                 FilingId |-> worker_result.filing_id,
                 Logs |-> worker_result.logs,
                 Success |-> worker_result.success,
                 ViewerEntrypoint |-> worker_result.viewer_entrypoint]
    IN  IF worker_result.document_date # None
        THEN base @@ ("DocumentDate" :> strftime(Value(worker_result.document_date)))
        ELSE base

-----------------------------------------------------------------------------
(* The Processor: what run_from_lambda makes of each stage's outcome. *)

DownloadFailedError == "Download failed."
WorkerFailedError == "Worker raised an exception."
UploadFailedError == "Upload failed."

\* a stage's fault, classified
failure_result(filing_id, message, logs) ==
    [WorkerResult EXCEPT !.error = Some(message), !.logs = logs, !.filing_id = Some(filing_id)]

\* the worker's result, with the job's identity folded in
normalized(filing_id, worker_result) ==
    [worker_result EXCEPT !.filing_id = Some(filing_id)]

-----------------------------------------------------------------------------
(* MockWorker. *)

FilingIds == {"f1", "f2"}
\* a filing id no mapping of the model is configured with
UnknownFilingId == "f3"
ViewerDirectories == {"/tmp/viewer1", "/tmp/viewer2"}

MockResults ==
    {[WorkerResult EXCEPT !.success = TRUE, !.viewer_entrypoint = Some(VIEWER_HTML_FILENAME),
                          !.company_name = Some("Acme Ltd")],
     [WorkerResult EXCEPT !.error = Some(EngineFailedError), !.logs = "[err] message - doc.xml"]}

WorkerResultsMaps == UNION {[D -> MockResults] : D \in SUBSET FilingIds}

\* a slip: a lookup with a default
mock_work_with_default(worker_results_map, filing_id) ==
    [kind |-> "returned", value |-> Some(Get(worker_results_map, filing_id, WorkerResult))]

\* MockWorker.work: the subscript raises KeyError for a missing key
mock_work(worker_results_map, filing_id) ==
    IF filing_id \in DOMAIN worker_results_map
    THEN [kind |-> "returned", value |-> Some(worker_results_map[filing_id])]
    ELSE [kind |-> "KeyError", value |-> None]


-----------------------------------------------------------------------------
(* Initial states. *)

\* the layout of a filing downloaded as an archive: /a is a directory and
\* /a/b.zip a valid archive that holds c/doc.xml
ArchiveFs == [p \in FsPaths |->
                 IF p = <<"a">> THEN "dir" ELSE IF p = <<"a", "b.zip">> THEN "zip" ELSE "absent"]

NothingRun ==
    /\ packages = <<>>
    /\ runtimeOptions = None
    /\ viewerResult = None
    /\ workerResult = None
    /\ result = None
    /\ response = None
    /\ fault = None
    /\ stages = <<>>

NoMock ==
    /\ mockMap = <<>>
    /\ mockMap0 = <<>>
    /\ mockCall = None
    /\ mockOut = [kind |-> "not called", value |-> None]

\* every document location and filesystem layout, the session exposing no model
InitLayouts ==
    /\ pc = "start"
    /\ jobId \in FilingIds
    /\ target \in Targets
    /\ fs \in Filesystems
    /\ engine \in {e \in EngineRuns : e.models = <<>>}
    /\ NothingRun /\ NoMock

\* every engine run, on the layout of a filing downloaded as an archive
InitEngineRuns ==
    /\ pc = "start"
    /\ jobId = "f1"
    /\ target = DocInArchive
    /\ fs = ArchiveFs
    /\ engine \in EngineRuns
    /\ NothingRun /\ NoMock

\* a MockWorker constructed with a mapping, before work is called
InitMock ==
    /\ pc = "mock"
    /\ jobId = "f1"
    /\ target = DocInArchive
    /\ fs = ArchiveFs
    /\ engine = [ok |-> FALSE, artifact |-> FALSE, stat |-> "ok", models |-> <<>>, logs |-> ""]
    /\ NothingRun
    /\ mockMap \in WorkerResultsMaps
    /\ mockMap0 = mockMap
    /\ mockCall = None
    /\ mockOut = [kind |-> "not called", value |-> None]

Init == InitLayouts \/ InitEngineRuns \/ InitMock

-----------------------------------------------------------------------------
(* lambda_handler, the Processor and IxbrlViewerWorker.work, step by step. *)

mockVars == <<mockMap, mockMap0, mockCall, mockOut>>
inputVars == <<jobId, target, fs, engine>>
workVars == <<packages, runtimeOptions, viewerResult, workerResult>>

\* lambda_handler: the options and the Processor are constructed
LoadConfiguration ==
    /\ pc = "start"
    /\ pc' = "configured"
    /\ UNCHANGED <<inputVars, workVars, result, response, fault, stages, mockVars>>

\* lambda_handler: ProcessorOptions raises; nothing around it catches
LoadConfigurationRaises ==
    /\ pc = "start"
    /\ pc' = "raised"
    /\ fault' = Some("configuration")
    /\ UNCHANGED <<inputVars, workVars, result, response, stages, mockVars>>

\* Processor: the filing is downloaded
Download ==
    /\ pc = "configured"
    /\ pc' = "downloaded"
    /\ stages' = Append(stages, "download")
    /\ UNCHANGED <<inputVars, workVars, result, response, fault, mockVars>>

\* Processor: the download fails and is classified
DownloadRaises ==
    /\ pc = "configured"
    /\ pc' = "returned"
    /\ stages' = Append(stages, "download")
    /\ fault' = Some("download")
    /\ result' = Some(failure_result(jobId, DownloadFailedError, ""))
    /\ UNCHANGED <<inputVars, workVars, response, mockVars>>

\* work: the walk over target_path.parents
DiscoverPackages ==
    /\ pc = "downloaded"
    /\ ~find_packages(fs, target).raised
    /\ pc' = "discovered"
    /\ packages' = find_packages(fs, target).packages
    /\ stages' = Append(stages, "discover")
    /\ UNCHANGED <<inputVars, runtimeOptions, viewerResult, workerResult,
                   result, response, fault, mockVars>>

\* work: is_zipfile raises BadZipFile during the walk; work catches nothing
DiscoverPackagesRaises ==
    /\ pc = "downloaded"
    /\ find_packages(fs, target).raised
    /\ pc' = "work raised"
    /\ stages' = Append(stages, "discover")
    /\ fault' = Some("discovery")
    /\ UNCHANGED <<inputVars, workVars, result, response, mockVars>>

\* work calls _generate_viewer: the session runs and the result is built
GenerateViewer ==
    /\ pc = "discovered"
    /\ pc' = "generated"
    /\ runtimeOptions' = Some([entrypointFile |-> target, packages |-> packages])
    /\ viewerResult' = Some(_generate_viewer(engine))
    /\ stages' = Append(stages, "process")
    /\ UNCHANGED <<inputVars, packages, workerResult, result, response, fault, mockVars>>

\* the session raises inside _generate_viewer; work catches nothing
GenerateViewerRaises ==
    /\ pc = "discovered"
    /\ pc' = "work raised"
    /\ runtimeOptions' = Some([entrypointFile |-> target, packages |-> packages])
    /\ stages' = Append(stages, "process")
    /\ fault' = Some("engine")
    /\ UNCHANGED <<inputVars, packages, viewerResult, workerResult, result, response, mockVars>>

\* Processor: the exception that left work is classified
ClassifyWorkerFault ==
    /\ pc = "work raised"
    /\ pc' = "returned"
    /\ result' = Some(failure_result(jobId, WorkerFailedError, ""))
    /\ UNCHANGED <<inputVars, workVars, response, fault, stages, mockVars>>

\* work: the result of _generate_viewer is classified and returned
FinishWork ==
    /\ pc = "generated"
    /\ ~work_result(Value(viewerResult), path_exists(engine)).raised
    /\ pc' = "worked"
    /\ workerResult' = work_result(Value(viewerResult), path_exists(engine)).value
    /\ UNCHANGED <<inputVars, packages, runtimeOptions, viewerResult,
                   result, response, fault, stages, mockVars>>

\* work: viewer_path.exists() raises; work catches nothing
FinishWorkRaises ==
    /\ pc = "generated"
    /\ work_result(Value(viewerResult), path_exists(engine)).raised
    /\ pc' = "work raised"
    /\ fault' = Some("artifact check")
    /\ UNCHANGED <<inputVars, workVars, result, response, stages, mockVars>>

\* Processor: the worker failed, its result is returned at once
ReturnFailure ==
    /\ pc = "worked"
    /\ ~Value(workerResult).success
    /\ pc' = "returned"
    /\ result' = Some(normalized(jobId, Value(workerResult)))
    /\ UNCHANGED <<inputVars, workVars, response, fault, stages, mockVars>>

\* Processor: the worker succeeded, the output directory is uploaded
Upload ==
    /\ pc = "worked"
    /\ Value(workerResult).success
    /\ pc' = "returned"
    /\ stages' = Append(stages, "upload")
    /\ result' = Some(normalized(jobId, Value(workerResult)))
    /\ UNCHANGED <<inputVars, workVars, response, fault, mockVars>>

\* Processor: the upload fails and is classified
UploadRaises ==
    /\ pc = "worked"
    /\ Value(workerResult).success
    /\ pc' = "returned"
    /\ stages' = Append(stages, "upload")
    /\ fault' = Some("upload")
    /\ result' = Some(failure_result(jobId, UploadFailedError, Value(workerResult).logs))
    /\ UNCHANGED <<inputVars, workVars, response, mockVars>>

\* lambda_handler: the WorkerResult is projected into the response
Respond ==
    /\ pc = "returned"
    /\ pc' = "responded"
    /\ response' = Some(lambda_response(Value(result)))
    /\ UNCHANGED <<inputVars, workVars, result, fault, stages, mockVars>>

\* MockWorker.work, called with a job and a viewer directory
MockWork ==
    /\ pc = "mock"
    /\ \E filing_id \in FilingIds \cup {UnknownFilingId}, viewer_directory \in ViewerDirectories :
          /\ mockCall' = Some([filing_id |-> filing_id, viewer_directory |-> viewer_directory])
          /\ mockOut' = mock_work(mockMap, filing_id)
    /\ pc' = "mock called"
    /\ UNCHANGED <<inputVars, workVars, result, response, fault, stages, mockMap, mockMap0>>

Next ==
    \/ LoadConfiguration
    \/ LoadConfigurationRaises
    \/ Download
    \/ DownloadRaises
    \/ DiscoverPackages
    \/ DiscoverPackagesRaises
    \/ GenerateViewer
    \/ GenerateViewerRaises
    \/ ClassifyWorkerFault
    \/ FinishWork
    \/ FinishWorkRaises
    \/ ReturnFailure
    \/ Upload
    \/ UploadRaises
    \/ Respond
    \/ MockWork

Spec == Init /\ [][Next]_vars


-----------------------------------------------------------------------------
(* The claims. *)

Range(q) == {q[i] : i \in DOMAIN q}
IsPrefix(q, r) == Len(q) <= Len(r) /\ q = SubSeq(r, 1, Len(q))

\* C1: every WorkerResult that work returns has, when success is true, no
\* error and the entrypoint "ixbrlviewer.html", and, when success is false,
\* an error and no entrypoint.
C1_ResultShape ==
    IsSome(workerResult) =>
        LET w == Value(workerResult)
        IN  /\ w.success => (w.error = None /\ w.viewer_entrypoint = Some("ixbrlviewer.html"))
            /\ ~w.success => (w.error # None /\ w.viewer_entrypoint = None)

\* work has returned success for an engine that succeeded and wrote the artifact
C1_Witness ==
    /\ IsSome(workerResult)
    /\ engine.ok /\ engine.artifact
    /\ Value(workerResult).success
    /\ Value(workerResult).viewer_entrypoint = Some(VIEWER_HTML_FILENAME)

\* C2: when the engine reports failure, work returns success=false with the
\* engine-failure message and the captured logs, whether or not the artifact
\* exists, and carries no company name, company number or document date.
C2_EngineFailure ==
    (IsSome(workerResult) /\ ~engine.ok) =>
        LET w == Value(workerResult)
        IN  /\ ~w.success
            /\ w.error = Some(EngineFailedError)
            /\ w.logs = engine.logs
            /\ w.company_name = None
            /\ w.company_number = None
            /\ w.document_date = None

\* the engine failed although facts were loaded, and work has returned without
\* the artifact in the output directory
C2_Witness ==
    /\ IsSome(workerResult)
    /\ ~engine.ok /\ ~engine.artifact
    /\ engine.logs # ""
    /\ IsSome(Value(viewerResult).company_name)
    /\ IsSome(Value(viewerResult).document_date)
    /\ Value(workerResult).error = Some(EngineFailedError)

\* C3: when the engine reports success and ixbrlviewer.html is absent, work
\* returns, and what it returns is success=false with the artifact-missing
\* message, which differs from the engine-failure message, and the captured
\* logs; work never returns success=true without the artifact.
C3_ArtifactMissing ==
    /\ (IsSome(viewerResult) /\ pc # "generated" /\ engine.ok /\ ~engine.artifact) =>
          /\ IsSome(workerResult)
          /\ ~Value(workerResult).success
          /\ Value(workerResult).error = Some(ViewerMissingError)
          /\ Value(workerResult).error # Some(EngineFailedError)
          /\ Value(workerResult).logs = engine.logs
    /\ (IsSome(workerResult) /\ Value(workerResult).success) => engine.artifact

\* C4: whatever stage raises, the caller of lambda_handler gets no exception:
\* the invocation never ends raised, and its response has Success=false, an
\* Error and Logs.
C4_NoFaultEscapes ==
    IsSome(fault) =>
        /\ pc # "raised"
        /\ pc = "responded" =>
              /\ Value(response).Success = FALSE
              /\ IsSome(Value(response).Error)
              /\ "Logs" \in DOMAIN Value(response)

\* C5: the stages run in the order download, discovery, processing, upload,
\* and the upload never runs when the engine failed or the artifact is
\* missing, that is when work returned success=false.
C5_StageOrder ==
    /\ IsPrefix(stages, <<"download", "discover", "process", "upload">>)
    /\ "upload" \in Range(stages) => (engine.ok /\ engine.artifact)
    /\ (IsSome(workerResult) /\ ~Value(workerResult).success) => "upload" \notin Range(stages)

\* all four stages have run, the upload last
C5_Witness ==
    /\ stages = <<"download", "discover", "process", "upload">>
    /\ Value(workerResult).success

\* the date in YYYY-MM-DD form
IsoDate(d) ==
    <<Digit(d.year \div 1000), Digit((d.year \div 100) % 10),
      Digit((d.year \div 10) % 10), Digit(d.year % 10)>>
    \o <<"-">> \o Pad2(d.month) \o <<"-">> \o Pad2(d.day)

\* C6: the response has the key DocumentDate exactly when the result carries
\* a document date, its value is then that date in YYYY-MM-DD form, and it
\* appears only with Success=true.
C6_DocumentDate ==
    pc = "responded" =>
        LET r == Value(response)
            w == Value(result)
        IN  /\ "DocumentDate" \in DOMAIN r <=> w.document_date # None
            /\ "DocumentDate" \in DOMAIN r =>
                  /\ r.DocumentDate = IsoDate(Value(w.document_date))
                  /\ r.Success = TRUE

Ancestors(t) == {SubSeq(t, 1, k) : k \in 0..(Len(t) - 1)}
ArchiveAncestors == {a \in Ancestors(target) : Kind(fs, a) = "zip"}

\* C7: the package list holds the nearest ancestor of the document that is a
\* valid archive and nothing else; it is empty when no ancestor up to the root
\* is one, directories and malformed archives being passed over; it never has
\* more than one element, and it is the list the engine is invoked with:
\* discovery never ends the invocation.
C7_PackageList ==
    "discover" \in Range(stages) =>
        /\ fault # Some("discovery")
        /\ Len(packages) <= 1
        /\ ArchiveAncestors = {} => packages = <<>>
        /\ ArchiveAncestors # {} =>
              /\ packages # <<>>
              /\ packages[1] \in ArchiveAncestors
              /\ \A a \in ArchiveAncestors : Len(a) <= Len(packages[1])
        /\ IsSome(runtimeOptions) => Value(runtimeOptions).packages = packages

\* C8 as stated: for the document /a/b/c/doc.xml, /a/b.zip a valid archive
\* and /a not one, discovery returns /a/b.zip.
C8_SiblingArchive ==
    ( /\ "discover" \in Range(stages)
      /\ target = <<"a", "b", "c", "doc.xml">>
      /\ Kind(fs, <<"a", "b.zip">>) = "zip"
      /\ Kind(fs, <<"a">>) # "zip" ) => packages = << <<"a", "b.zip">> >>

\* C8, amended: for the document /a/b.zip/c/doc.xml, /a/b.zip a valid archive
\* and /a not one, discovery returns /a/b.zip, not /a and not none.
C8_EnclosingArchive ==
    ( /\ "discover" \in Range(stages)
      /\ target = <<"a", "b.zip", "c", "doc.xml">>
      /\ Kind(fs, <<"a", "b.zip">>) = "zip"
      /\ Kind(fs, <<"a">>) # "zip" ) => packages = << <<"a", "b.zip">> >>

\* discovery has run for /a/b.zip/c/doc.xml with /a/b.zip a valid archive
C8_Witness ==
    /\ pc = "discovered"
    /\ target = <<"a", "b.zip", "c", "doc.xml">>
    /\ Kind(fs, <<"a", "b.zip">>) = "zip"
    /\ Kind(fs, <<"a">>) = "dir"
    /\ packages = << <<"a", "b.zip">> >>

\* C9: MockWorker.work returns the result configured for the job's filing id,
\* whatever the other arguments, raises for a filing id that is not configured,
\* and leaves the mapping as it was.
C9_MockLookup ==
    pc = "mock called" =>
        LET id == Value(mockCall).filing_id
        IN  /\ id \in DOMAIN mockMap0 =>
                  mockOut = [kind |-> "returned", value |-> Some(mockMap0[id])]
            /\ id \notin DOMAIN mockMap0 =>
                  (mockOut.kind = "KeyError" /\ mockOut.value = None)
            /\ mockMap = mockMap0

\* work was called for a filing id outside a non-empty mapping, and raised
C9_Witness ==
    /\ pc = "mock called"
    /\ DOMAIN mockMap # {}
    /\ Value(mockCall).filing_id \notin DOMAIN mockMap
    /\ mockOut.kind = "KeyError"

\* the first fact under local name n in the first model, if there is one
FirstFact(n) ==
    IF engine.models = <<>> THEN None
    ELSE IF n \notin DOMAIN engine.models[1].factsByLocalName THEN None
    ELSE Some(engine.models[1].factsByLocalName[n][1].xValue)

\* C10: each of the three extracted fields is the value of the first fact
\* under its local name in the first model, and is absent when there is no
\* such fact or no model; the outcome of work does not depend on the facts.
C10_FactExtraction ==
    /\ IsSome(viewerResult) =>
          LET r == Value(viewerResult)
          IN  /\ r.company_name = FirstFact("EntityCurrentLegalOrRegisteredName")
              /\ r.company_number = FirstFact("UKCompaniesHouseRegisteredNumber")
              /\ r.document_date = FirstFact("BalanceSheetDate")
              /\ r.success = engine.ok
    /\ IsSome(workerResult) =>
          (Value(workerResult).success <=> (engine.ok /\ engine.artifact))

\* two facts with different values share a local name, a second model is
\* exposed, one local name has no fact, and the first value was extracted
C10_Witness ==
    /\ IsSome(workerResult)
    /\ Len(engine.models) = 2
    /\ LET f == engine.models[1].factsByLocalName
       IN  /\ EntityName \in DOMAIN f
           /\ Len(f[EntityName]) = 2
           /\ f[EntityName][1] # f[EntityName][2]
           /\ RegisteredNumber \notin DOMAIN f
           /\ Value(viewerResult).company_name = Some(f[EntityName][1].xValue)
           /\ Value(viewerResult).company_number = None

=============================================================================
